---- MODULE Spec2Model ----
(***************************************************************************)
(* Model of the FastAPI MCP server of src/main.py: the JSON-RPC dispatcher *)
(* (MCPServer.handle_request / call_tool), the WebSocket session loop      *)
(* (websocket_endpoint) and the connection registry (ConnectionManager).   *)
(***************************************************************************)
EXTENDS Integers, Sequences, FiniteSets, TLC

(* ------------------------------ bounds --------------------------------- *)
\* Frames the clients send in total.
MaxFrames == 2

\* The WebSocket objects of the model: two concurrent connections.
Conns == {"ws1", "ws2"}

(* ------------------- JSON / Python values (tagged) --------------------- *)
\* A key that is missing from a JSON object.
ABSENT == [t |-> "absent"]
\* JSON null / Python None.
JNull == [t |-> "null"]
JStr(s) == [t |-> "str", v |-> s]
JNum(n) == [t |-> "num", v |-> n]
JBool(b) == [t |-> "bool", v |-> b]
\* A JSON array / Python list.
JListOf(items) == [t |-> "list", items |-> items]
JList == JListOf(<<>>)
\* A JSON object / Python dict: m is a function from keys to values.
Dict(m) == [t |-> "obj", m |-> m]
EmptyMap == [k \in {} |-> ABSENT]
\* A Python float, kept as the fraction num/den (den > 0).
JFloat(n, d) == [t |-> "float", num |-> n, den |-> d]
\* An f-string: the sequence of its literal and interpolated segments.
FStr(parts) == [t |-> "fstr", parts |-> parts]
\* A value computed by a library routine the model does not evaluate.
Opaque(op, of) == [t |-> "opaque", op |-> op, of |-> of]

\* dict.get(key, default)
Get(d, k, default) == IF k \in DOMAIN d.m THEN d.m[k] ELSE default

\* Outcome of evaluating Python code: a returned value or a raised exception.
\* msg is str(e), kept as the sequence of its text segments.
Return(v) == [raised |-> FALSE, value |-> v]
Raise(type, msg) == [raised |-> TRUE, exc |-> type, msg |-> msg]

\* type(x).__name__ as it appears in Python's error messages.
TypeName(x) ==
    CASE x.t \in {"str", "fstr"} -> "str"
      [] x.t = "num" -> "int"
      [] x.t = "null" -> "NoneType"
      [] x.t = "list" -> "list"
      [] x.t = "obj" -> "dict"
      [] x.t = "bool" -> "bool"
      [] OTHER -> "float"

\* str(x) for the values a tool can return.
RECURSIVE Digits(_)
Digits(n) == IF n < 10 THEN <<n>> ELSE Append(Digits(n \div 10), n % 10)
DigitChar(d) == <<"0", "1", "2", "3", "4", "5", "6", "7", "8", "9">>[d + 1]
RECURSIVE Concat(_)
Concat(ss) == IF ss = <<>> THEN "" ELSE ss[1] \o Concat(Tail(ss))
IntStr(n) ==
    LET abs == IF n < 0 THEN 0 - n ELSE n
        ds == Digits(abs)
        body == Concat([i \in 1..Len(ds) |-> DigitChar(ds[i])])
    IN  IF n < 0 THEN "-" \o body ELSE body
str(x) ==
    CASE x.t = "str" -> x.v
      [] x.t = "num" -> IntStr(x.v)
      [] x.t = "null" -> "None"
      [] x.t = "float" -> "float(" \o IntStr(x.num) \o "/" \o IntStr(x.den) \o ")"
      [] x.t = "bool" -> IF x.v THEN "True" ELSE "False"
      [] x.t = "list" -> "[...]"
      [] x.t = "obj" -> "{...}"
      [] x.t = "fstr" -> Concat(x.parts)
      [] OTHER -> x.op \o "(...)"

(* --------------------------- Tool Registry ----------------------------- *)
\* Mutant of InitialTools: a tool is registered for which call_tool has no
\* branch.
InitialTools_unbound ==
    << "echo", "get_time", "add", "subtract", "multiply", "divide", "power",
       "sqrt", "uppercase", "lowercase", "reverse_string", "string_length",
       "read_file", "write_file", "list_directory", "random_number",
       "generate_uuid", "hash_md5", "hash_sha256", "validate_url",
       "make_request", "ping" >>
\* The keys MCPServer.__init__ puts into self.tools, in insertion
\* (registration) order.
InitialTools ==
    << "echo", "get_time", "add", "subtract", "multiply", "divide", "power",
       "sqrt", "uppercase", "lowercase", "reverse_string", "string_length",
       "read_file", "write_file", "list_directory", "random_number",
       "generate_uuid", "hash_md5", "hash_sha256", "validate_url",
       "make_request" >>
\* MCPServer.tools of the one mcp_server of the process: its keys, in order.
VARIABLE tools
ToolNames == {tools[i] : i \in 1..Len(tools)}
\* Mutant of tools_values: the descriptors are listed last-registered first.
tools_values_reversed ==
    JListOf([i \in 1..Len(tools) |->
                Dict([name |-> JStr(tools[Len(tools) + 1 - i])])])
\* list(self.tools.values()); a descriptor is identified by its name.
tools_values == JListOf([i \in 1..Len(tools) |-> Dict([name |-> JStr(tools[i])])])

\* Python hashes str, int, float, bool and None; list and dict are unhashable.
Hashable(x) == x.t \notin {"list", "obj"}
\* key in self.tools
InTools(x) ==
    IF ~Hashable(x)
    THEN Raise("TypeError", <<"unhashable type: '", TypeName(x), "'">>)
    ELSE Return(x.t = "str" /\ x.v \in ToolNames)

(* ------------------------ Python number helpers ------------------------ *)
IsNumber(x) == x.t \in {"num", "float"}
IsInt(x) == x.t = "num"
Numer(x) == IF x.t = "num" THEN x.v ELSE x.num
Denom(x) == IF x.t = "num" THEN 1 ELSE x.den
\* x == 0
IsZero(x) == IsNumber(x) /\ Numer(x) = 0
\* x < y and x > y on numbers
NumLess(x, y) == Numer(x) * Denom(y) < Numer(y) * Denom(x)
\* int(x): truncation toward zero
Trunc(x) ==
    LET n == Numer(x)  d == Denom(x)
    IN  IF n >= 0 THEN n \div d ELSE 0 - ((0 - n) \div d)
NoAttr(x, attr) ==
    Raise("AttributeError",
          <<"'", TypeName(x), "' object has no attribute '", attr, "'">>)
BadOperands(op, a, b) ==
    Raise("TypeError", <<"unsupported operand type(s) for ", op, ": '",
                         TypeName(a), "' and '", TypeName(b), "'">>)
PyAdd(a, b) ==
    CASE IsInt(a) /\ IsInt(b) -> Return(JNum(a.v + b.v))
      [] IsNumber(a) /\ IsNumber(b) /\ ~(IsInt(a) /\ IsInt(b)) ->
            Return(JFloat(Numer(a) * Denom(b) + Numer(b) * Denom(a),
                          Denom(a) * Denom(b)))
      [] a.t = "str" /\ b.t = "str" -> Return(JStr(a.v \o b.v))
      [] a.t = "str" /\ b.t # "str" ->
            Raise("TypeError", <<"can only concatenate str (not \"",
                                 TypeName(b), "\") to str">>)
      [] OTHER -> BadOperands("+", a, b)
PySub(a, b) ==
    CASE IsInt(a) /\ IsInt(b) -> Return(JNum(a.v - b.v))
      [] IsNumber(a) /\ IsNumber(b) /\ ~(IsInt(a) /\ IsInt(b)) ->
            Return(JFloat(Numer(a) * Denom(b) - Numer(b) * Denom(a),
                          Denom(a) * Denom(b)))
      [] OTHER -> BadOperands("-", a, b)
PyMul(a, b) ==
    CASE IsInt(a) /\ IsInt(b) -> Return(JNum(a.v * b.v))
      [] IsNumber(a) /\ IsNumber(b) /\ ~(IsInt(a) /\ IsInt(b)) ->
            Return(JFloat(Numer(a) * Numer(b), Denom(a) * Denom(b)))
      [] a.t = "str" /\ IsInt(b) -> Return(Opaque("repeat", a))
      [] IsInt(a) /\ b.t = "str" -> Return(Opaque("repeat", b))
      [] OTHER -> BadOperands("*", a, b)
\* a / b, reached only with b != 0
PyTrueDiv(a, b) ==
    IF ~(IsNumber(a) /\ IsNumber(b)) THEN BadOperands("/", a, b)
    ELSE IF IsZero(b)
    THEN Raise("ZeroDivisionError",
               <<IF IsInt(a) /\ IsInt(b) THEN "division by zero"
                 ELSE "float division by zero">>)
    ELSE Return(JFloat(Numer(a) * Denom(b), Denom(a) * Numer(b)))
PyPow(a, b) ==
    CASE IsInt(a) /\ IsInt(b) /\ b.v >= 0 ->
            Return(JNum(IF b.v = 0 THEN 1 ELSE a.v ^ b.v))
      [] IsNumber(a) /\ IsNumber(b) /\ IsZero(a) /\ NumLess(b, JNum(0)) ->
            Raise("ZeroDivisionError",
                  <<"0.0 cannot be raised to a negative power">>)
      [] IsNumber(a) /\ IsNumber(b)
         /\ ~(IsInt(a) /\ IsInt(b) /\ b.v >= 0)
         /\ ~(IsZero(a) /\ NumLess(b, JNum(0))) -> Return(Opaque("pow", a))
      [] OTHER -> BadOperands("** or pow()", a, b)

(* ---------------------------- Tool Executor ---------------------------- *)
\* What the environment decides during one tool execution: the outcome of
\* the file or network operation and the number random.randint draws.
IoOutcomes == {"ok", "notfound", "error"}
Env(io, rand) == [io |-> io, rand |-> rand]

\* b == 0: true of 0, 0.0, -0.0 and False
EqZero(b) == IsZero(b) \/ b = JBool(FALSE)
\* Mutant of divide: the test of the divisor is missing.
divide_unchecked(a, b) == PyTrueDiv(a, b)
divide(a, b) ==
    IF EqZero(b) THEN Raise("ValueError", <<"Division by zero is not allowed">>)
    ELSE PyTrueDiv(a, b)
sqrt(number) ==
    IF ~(IsNumber(number) \/ number.t = "bool")
    THEN Raise("TypeError", <<"'<' not supported between instances of '",
                              TypeName(number), "' and 'int'">>)
    ELSE IF number.t # "bool" /\ NumLess(number, JNum(0))
    THEN Raise("ValueError",
               <<"Cannot calculate square root of negative number">>)
    ELSE Return(Opaque("sqrt", number))
\* text.upper(), text.lower(), text.encode(): str methods
StrMethod(text, attr) ==
    IF text.t = "str" THEN Return(Opaque(attr, text)) ELSE NoAttr(text, attr)
uppercase(text) == StrMethod(text, "upper")
lowercase(text) == StrMethod(text, "lower")
reverse_string(text) ==
    IF text.t \in {"str", "list"} THEN Return(Opaque("reversed", text))
    ELSE Raise("TypeError",
               <<"'", TypeName(text), "' object is not subscriptable">>)
string_length(text) ==
    CASE text.t = "str" -> Return(JNum(Len(text.v)))
      [] text.t = "list" -> Return(JNum(Len(text.items)))
      [] text.t = "obj" -> Return(JNum(Cardinality(DOMAIN text.m)))
      [] OTHER -> Raise("TypeError", <<"object of type '", TypeName(text),
                                       "' has no len()">>)
read_file(filepath, env) ==
    CASE env.io = "ok" -> Return(Opaque("file.read", filepath))
      [] env.io = "notfound" ->
            Raise("ValueError", <<"File not found: ", str(filepath)>>)
      [] OTHER -> Raise("ValueError", <<"Error reading file: ", "OSError">>)
write_file(filepath, content, env) ==
    IF env.io = "ok" /\ content.t = "str"
    THEN Return(FStr(<<"Successfully wrote ", IntStr(Len(content.v)),
                       " characters to ", str(filepath)>>))
    ELSE Raise("ValueError", <<"Error writing file: ", "OSError">>)
list_directory(path, env) ==
    CASE env.io = "ok" ->
            Return(Dict([path |-> path, items |-> Opaque("os.listdir", path),
                         count |-> Opaque("len", path)]))
      [] env.io = "notfound" ->
            Raise("ValueError", <<"Directory not found: ", str(path)>>)
      [] OTHER ->
            Raise("ValueError", <<"Error listing directory: ", "OSError">>)
\* The integers random.randint(int(min_val), int(max_val)) can return.
RandRange(min_val, max_val) ==
    IF IsNumber(min_val) /\ IsNumber(max_val)
    THEN Trunc(min_val)..Trunc(max_val) ELSE {}
random_number(min_val, max_val, env) ==
    IF ~(IsNumber(min_val) /\ IsNumber(max_val))
    THEN Raise("TypeError", <<"'>' not supported between instances of '",
                      TypeName(min_val), "' and '", TypeName(max_val), "'">>)
    ELSE IF NumLess(max_val, min_val)
    THEN Raise("ValueError",
               <<"Minimum value cannot be greater than maximum value">>)
    ELSE Return(JNum(env.rand))
\* hashlib.md5(text.encode()).hexdigest() and its sha256 twin
hash_md5(text) ==
    IF text.t = "str" THEN Return(Opaque("md5", text)) ELSE NoAttr(text, "encode")
hash_sha256(text) ==
    IF text.t = "str" THEN Return(Opaque("sha256", text)) ELSE NoAttr(text, "encode")
\* The strings of the model's inputs that url_pattern matches.
UrlMatches(s) == s \in {"http://localhost", "https://example.com/x"}
validate_url(url) ==
    IF url.t = "str" THEN Return(JBool(UrlMatches(url.v)))
    ELSE Raise("TypeError", <<"expected string or bytes-like object, got '",
                              TypeName(url), "'">>)
\* make_request up to its await: method.upper() is evaluated outside the try.
make_request_prepare(method) == StrMethod(method, "upper")
make_request(url, method, env) ==
    IF make_request_prepare(method).raised THEN make_request_prepare(method)
    ELSE IF env.io = "ok"
    THEN Return(Dict([status_code |-> JNum(200),
                      headers |-> Opaque("headers", url),
                      content |-> Opaque("text", url),
                      url |-> Opaque("url", url)]))
    ELSE Raise("ValueError", <<"Error making request: ", "ConnectError">>)

\* The literals the if/elif chain of call_tool compares tool_name with, in
\* source order.
ToolBranches ==
    << "echo", "get_time", "add", "subtract", "multiply", "divide", "power",
       "sqrt", "uppercase", "lowercase", "reverse_string", "string_length",
       "read_file", "write_file", "list_directory", "random_number",
       "generate_uuid", "hash_md5", "hash_sha256", "validate_url",
       "make_request" >>
\* The final else of call_tool was taken.
IsUnknownTool(out) ==
    out.raised /\ out.exc = "ValueError" /\ out.msg[1] = "Unknown tool: "
\* tool_name == "<name>"
Is(tool_name, s) == tool_name.t = "str" /\ tool_name.v = s
\* MCPServer.call_tool: the branch chain, in source order. arguments is
\* whatever params carried, so arguments.get fails on anything but a dict.
call_tool(tool_name, arguments, env) ==
    LET arg(k, d) == Get(arguments, k, d)
        nodict == arguments.t # "obj"
        fail == NoAttr(arguments, "get")
        zero == JNum(0)
        empty == JStr("")
    IN
    IF Is(tool_name, "echo")
        THEN IF nodict THEN fail ELSE Return(arg("text", empty))
    ELSE IF Is(tool_name, "get_time") THEN Return(Opaque("isoformat", JNull))
    ELSE IF Is(tool_name, "add")
        THEN IF nodict THEN fail ELSE PyAdd(arg("a", zero), arg("b", zero))
    ELSE IF Is(tool_name, "subtract")
        THEN IF nodict THEN fail ELSE PySub(arg("a", zero), arg("b", zero))
    ELSE IF Is(tool_name, "multiply")
        THEN IF nodict THEN fail ELSE PyMul(arg("a", zero), arg("b", zero))
    ELSE IF Is(tool_name, "divide")
        THEN IF nodict THEN fail ELSE divide(arg("a", zero), arg("b", zero))
    ELSE IF Is(tool_name, "power")
        THEN IF nodict THEN fail ELSE PyPow(arg("base", zero), arg("exponent", zero))
    ELSE IF Is(tool_name, "sqrt")
        THEN IF nodict THEN fail ELSE sqrt(arg("number", zero))
    ELSE IF Is(tool_name, "uppercase")
        THEN IF nodict THEN fail ELSE uppercase(arg("text", empty))
    ELSE IF Is(tool_name, "lowercase")
        THEN IF nodict THEN fail ELSE lowercase(arg("text", empty))
    ELSE IF Is(tool_name, "reverse_string")
        THEN IF nodict THEN fail ELSE reverse_string(arg("text", empty))
    ELSE IF Is(tool_name, "string_length")
        THEN IF nodict THEN fail ELSE string_length(arg("text", empty))
    ELSE IF Is(tool_name, "read_file")
        THEN IF nodict THEN fail ELSE read_file(arg("filepath", empty), env)
    ELSE IF Is(tool_name, "write_file")
        THEN IF nodict THEN fail
             ELSE write_file(arg("filepath", empty), arg("content", empty), env)
    ELSE IF Is(tool_name, "list_directory")
        THEN IF nodict THEN fail ELSE list_directory(arg("path", JStr(".")), env)
    ELSE IF Is(tool_name, "random_number")
        THEN IF nodict THEN fail
             ELSE random_number(arg("min", zero), arg("max", JNum(100)), env)
    ELSE IF Is(tool_name, "generate_uuid") THEN Return(Opaque("uuid4", JNull))
    ELSE IF Is(tool_name, "hash_md5")
        THEN IF nodict THEN fail ELSE hash_md5(arg("text", empty))
    ELSE IF Is(tool_name, "hash_sha256")
        THEN IF nodict THEN fail ELSE hash_sha256(arg("text", empty))
    ELSE IF Is(tool_name, "validate_url")
        THEN IF nodict THEN fail ELSE validate_url(arg("url", empty))
    ELSE IF Is(tool_name, "make_request")
        THEN IF nodict THEN fail
             ELSE make_request(arg("url", empty), arg("method", JStr("GET")), env)
    ELSE Raise("ValueError", <<"Unknown tool: ", str(tool_name)>>)

(* -------------------------- Protocol models ---------------------------- *)
\* The exception classes of the model and their base class.
Base(cls) ==
    CASE cls = "JSONDecodeError" -> "ValueError"
      [] cls = "ValidationError" -> "ValueError"
      [] cls = "Exception" -> "BaseException"
      [] OTHER -> "Exception"
\* isinstance(e, cls) for an exception e of class exc
IsInstance(exc, cls) ==
    \/ exc = cls
    \/ Base(exc) = cls
    \/ Base(Base(exc)) = cls

\* MCPRequest(**request_data): pydantic validation of the decoded frame.
MCPRequest(request_data) ==
    IF request_data.t # "obj"
    THEN Raise("TypeError", <<"MCPRequest() argument after ** must be a mapping, not ",
                              TypeName(request_data)>>)
    ELSE LET jsonrpc == Get(request_data, "jsonrpc", JStr("2.0"))
             id == Get(request_data, "id", ABSENT)
             method == Get(request_data, "method", ABSENT)
             params == Get(request_data, "params", Dict(EmptyMap))
         IN  IF jsonrpc.t = "str" /\ id.t = "str" /\ method.t = "str"
                /\ params.t = "obj"
             THEN Return([jsonrpc |-> jsonrpc.v, id |-> id.v,
                          method |-> method.v, params |-> params])
             ELSE Raise("ValidationError",
                        <<"validation error for MCPRequest">>)

\* MCPResponse(**kw): fields that are not passed take the class defaults
\* result = {} and error = None.
MCPResponse(kw) ==
    [jsonrpc |-> "2.0",
     id |-> kw.id,
     result |-> IF "result" \in DOMAIN kw THEN kw.result ELSE Dict(EmptyMap),
     error |-> IF "error" \in DOMAIN kw THEN kw.error ELSE JNull]
ErrorObject(code, parts) == Dict([code |-> JNum(code), message |-> FStr(parts)])

\* response.model_dump_json(): every field of the model is written.
model_dump_json(response) ==
    Dict([jsonrpc |-> JStr(response.jsonrpc), id |-> JStr(response.id),
          result |-> response.result, error |-> response.error])

(* ------------------------- Protocol Dispatcher ------------------------- *)
InitializeResult ==
    Dict([protocolVersion |-> JStr("2024-11-05"),
          capabilities |-> Dict([tools |-> Dict(EmptyMap)]),
          serverInfo |-> Dict([name |-> JStr("fastapi-mcp-server"),
                               version |-> JStr("1.0.0")])])
\* Mutant of ContentEnvelope: the return value is not passed through str().
ContentEnvelope_raw(result) ==
    Dict([content |-> JListOf(<<Dict([type |-> JStr("text"),
                                     text |-> result])>>)])
ContentEnvelope(result) ==
    Dict([content |-> JListOf(<<Dict([type |-> JStr("text"),
                                     text |-> JStr(str(result))])>>)])
ToolNotFound(request, tool_name) ==
    MCPResponse([id |-> request.id,
                 error |-> ErrorObject(-32601, <<"Tool '", str(tool_name),
                                                "' not found">>)])
\* Mutant of MethodNotFound: the message does not name the method.
MethodNotFound_generic(request) ==
    MCPResponse([id |-> request.id,
                 error |-> ErrorObject(-32601, <<"Method not found">>)])
MethodNotFound(request) ==
    MCPResponse([id |-> request.id,
                 error |-> ErrorObject(-32601, <<"Method '", request.method,
                                                "' not found">>)])
\* Mutant of InternalError: the error response loses the request's id.
InternalError_unknown_id(request, e) ==
    MCPResponse([id |-> "unknown",
                 error |-> ErrorObject(-32603, <<"Internal error: ">> \o e.msg)])
\* The response built by the except clause of handle_request for exception e.
InternalError(request, e) ==
    MCPResponse([id |-> request.id,
                 error |-> ErrorObject(-32603, <<"Internal error: ">> \o e.msg)])
\* Mutant of ExceptException: the clause reads "except ValueError as e".
ExceptException_ValueError(exc) == IsInstance(exc, "ValueError")
\* "except Exception as e" of handle_request: the classes it catches.
ExceptException(exc) == IsInstance(exc, "Exception")

\* A dispatch: what the code returned or raised (out) and the tool bindings
\* it executed on the way (calls).
Dispatch(out, calls) == [out |-> out, calls |-> calls]

\* The try block of handle_request.
handle_request_try(request, env) ==
    CASE request.method = "initialize" ->
            Dispatch(Return(MCPResponse([id |-> request.id,
                                         result |-> InitializeResult])), <<>>)
      [] request.method = "tools/list" ->
            Dispatch(Return(MCPResponse([id |-> request.id,
                              result |-> Dict([tools |-> tools_values])])), <<>>)
      [] request.method = "tools/call" ->
            LET tool_name == Get(request.params, "name", JNull)
                arguments == Get(request.params, "arguments", Dict(EmptyMap))
                found == InTools(tool_name)
            IN  IF found.raised THEN Dispatch(found, <<>>)
                ELSE IF found.value
                THEN LET result == call_tool(tool_name, arguments, env)
                     IN  IF result.raised
                         THEN Dispatch(result, <<tool_name.v>>)
                         ELSE Dispatch(Return(MCPResponse([id |-> request.id,
                                 result |-> ContentEnvelope(result.value)])),
                                       <<tool_name.v>>)
                ELSE Dispatch(Return(ToolNotFound(request, tool_name)), <<>>)
      [] OTHER -> Dispatch(Return(MethodNotFound(request)), <<>>)

\* MCPServer.handle_request: the try block and its except clause.
handle_request(request, env) ==
    LET t == handle_request_try(request, env)
    IN  IF t.out.raised /\ ExceptException(t.out.exc)
        THEN Dispatch(Return(InternalError(request, t.out)), t.calls)
        ELSE t

(* ------------------------------- Frames -------------------------------- *)
\* A JSON object holding the keys whose value is given.
ObjectOf(all) == Dict([k \in {x \in DOMAIN all : all[x] # ABSENT} |-> all[k]])
RequestObject(id, method, params) ==
    ObjectOf([id |-> id, method |-> method, params |-> params])
Params(name, arguments) == ObjectOf([name |-> name, arguments |-> arguments])

\* A text frame: its JSON value, or no value when the text is not JSON.
InvalidText == [syntax |-> "invalid"]
Text(value) == [syntax |-> "valid", value |-> value]
\* json.loads(data)
json_loads(data) ==
    IF data.syntax = "invalid"
    THEN Raise("JSONDecodeError", <<"Expecting value: line 1 column 1 (char 0)">>)
    ELSE Return(data.value)

(* ------------------------- Inputs of the model ------------------------- *)
RequestIds == {"1", "2"}
Methods == {"initialize", "tools/list", "tools/call", "tools/frobnicate"}
AddArgs == Dict([a |-> JNum(2), b |-> JNum(3)])
\* Values of params.name that are not a registered tool name.
BadNames == {ABSENT, JNull, JNum(5), JList, JStr("nonexistent")}
\* tools/call cases: <<params.name, params.arguments>>
CallCases ==
    {<<n, ABSENT>> : n \in BadNames}
    \cup {<<JStr("nonexistent"), AddArgs>>}
    \cup {<<JStr("add"), x>> : x \in {AddArgs, JList, ABSENT,
                                     Dict([a |-> JStr("x"), b |-> JNum(3)])}}
    \cup {<<JStr("divide"), x>> : x \in {Dict([a |-> JNum(6), b |-> JNum(3)]),
                                        Dict([a |-> JNum(1), b |-> JNum(0)]),
                                        Dict([a |-> JNum(1)]),
                                        Dict([a |-> JNum(1), b |-> JFloat(0, 1)]),
                                        Dict([a |-> JFloat(1, 2), b |-> JNum(0)]),
                                        Dict([a |-> JStr("x"), b |-> JNum(0)]),
                                        Dict([a |-> JNum(1), b |-> JBool(FALSE)])}}
    \cup {<<JStr("echo"), x>> : x \in {Dict([text |-> JStr("hi")]), JNull}}
    \cup {<<JStr("get_time"), JList>>}
    \cup {<<JStr("sqrt"), Dict([number |-> JNum(-4)])>>}
    \cup {<<JStr("read_file"), Dict([filepath |-> JStr("/etc/hosts")])>>}
    \cup {<<JStr("random_number"), x>> :
            x \in {Dict([min |-> JNum(1), max |-> JNum(2)]),
                   Dict([min |-> JNum(3), max |-> JNum(1)]),
                   Dict([min |-> JFloat(1, 2), max |-> JFloat(3, 2)])}}
    \cup {<<JStr("make_request"), x>> :
            x \in {Dict([url |-> JStr("http://localhost")]),
                   Dict([url |-> JStr("http://localhost"), method |-> JNum(1)])}}
\* JSON values that are not objects, and objects that are not a Request.
NonObjects == {JList, JNum(1), JStr("ping")}
SchemaViolations ==
    { RequestObject(ABSENT, JStr("tools/list"), ABSENT),
      RequestObject(JNum(7), JStr("initialize"), ABSENT),
      RequestObject(JStr("1"), ABSENT, ABSENT),
      RequestObject(JStr("1"), JStr("tools/call"), JList) }
Frames ==
    {InvalidText}
    \cup {Text(v) : v \in NonObjects \cup SchemaViolations}
    \cup {Text(RequestObject(JStr(i), JStr(m), ABSENT)) :
            i \in RequestIds, m \in Methods}
    \cup {Text(RequestObject(JStr("2"), JStr("tools/frobnicate"),
                             Params(JStr("add"), AddArgs)))}
    \cup {Text(RequestObject(JStr("1"), JStr("tools/call"),
                             Params(cc[1], cc[2]))) : cc \in CallCases}
    \cup {Text(RequestObject(JStr("2"), JStr("tools/call"),
                             Params(JStr(InitialTools[i]), Dict(EmptyMap)))) :
            i \in 1..Len(InitialTools)}

\* The frames the clients of the concurrent sessions send: one of each kind
\* of decode failure, each method, and tools/call with a result, a tool
\* error, an unknown name, an unhashable name, file I/O and an HTTP request.
CallFrame(id, name, arguments) ==
    Text(RequestObject(JStr(id), JStr("tools/call"), Params(name, arguments)))
SessionFrames ==
    { InvalidText,
      Text(JList),
      Text(RequestObject(ABSENT, JStr("tools/list"), ABSENT)),
      Text(RequestObject(JStr("1"), JStr("initialize"), ABSENT)),
      Text(RequestObject(JStr("2"), JStr("tools/list"), ABSENT)),
      Text(RequestObject(JStr("1"), JStr("tools/frobnicate"), ABSENT)),
      CallFrame("1", JStr("add"), AddArgs),
      CallFrame("2", JStr("divide"), Dict([a |-> JNum(1), b |-> JNum(0)])),
      CallFrame("2", JStr("nonexistent"), Dict(EmptyMap)),
      CallFrame("1", JList, ABSENT),
      CallFrame("1", JStr("read_file"), Dict([filepath |-> JStr("/etc/hosts")])),
      CallFrame("2", JStr("make_request"), Dict([url |-> JStr("http://localhost")])) }

\* The tool a request would execute, "" when it executes none.
CalledTool(request) ==
    LET tool_name == Get(request.params, "name", JNull)
    IN  IF request.method = "tools/call" /\ tool_name.t = "str"
           /\ tool_name.v \in ToolNames
        THEN tool_name.v ELSE ""
CallArguments(request) == Get(request.params, "arguments", Dict(EmptyMap))
\* The environment's possible decisions while the request is dispatched.
EnvChoices(request) ==
    LET tool == CalledTool(request)
        arguments == CallArguments(request)
    IN  CASE tool \in {"read_file", "write_file", "list_directory"} ->
                {Env(io, 0) : io \in IoOutcomes}
          [] tool = "make_request" -> {Env(io, 0) : io \in {"ok", "error"}}
          [] tool = "random_number" /\ arguments.t = "obj" ->
                LET range == RandRange(Get(arguments, "min", JNum(0)),
                                       Get(arguments, "max", JNum(100)))
                IN  IF range = {} THEN {Env("ok", 0)}
                    ELSE {Env("ok", r) : r \in range}
          [] OTHER -> {Env("ok", 0)}
\* The dispatch reaches "await client.request(...)", where the coroutine
\* yields to the event loop.
Suspends(request) ==
    /\ CalledTool(request) = "make_request"
    /\ CallArguments(request).t = "obj"
    /\ ~make_request_prepare(Get(CallArguments(request), "method",
                                 JStr("GET"))).raised
\* The dispatch reaches open(...) or os.listdir(...): calls that return only
\* when the file system has answered, made on the thread of the event loop.
Blocks(request) ==
    /\ CalledTool(request) \in {"read_file", "write_file", "list_directory"}
    /\ CallArguments(request).t = "obj"

(* ------------------ Connection registry and sessions ------------------- *)
VARIABLES
    active_connections, \* ConnectionManager.active_connections (a list)
    pc,                 \* where each websocket_endpoint coroutine stands
    transport,          \* "up" until the peer of the connection has gone
    data,               \* the frame the loop iteration is processing
    response,           \* the response the iteration is about to send
    recvd,              \* frames returned by receive_text, per connection
    sent,               \* what the peer received, per connection, in order
    executed,           \* tool bindings executed for the current frame
    saw_disconnect,     \* a send or receive raised WebSocketDisconnect
    late_sends,         \* send_text calls made after saw_disconnect
    http_request,       \* the body of the HTTP request being served
    http_reply          \* what the HTTP route returned or raised
vars == <<tools, active_connections, pc, transport, data, response, recvd,
          sent, executed, saw_disconnect, late_sends, http_request,
          http_reply>>
\* The state of the HTTP routes, which the WebSocket endpoint does not touch.
http_vars == <<http_request, http_reply>>

NoFrame == [syntax |-> "none"]
NoResponse == [jsonrpc |-> "none"]
NoHttpRequest == [route |-> "none"]
SendPcs == {"send_response", "send_parse_error", "send_internal_error"}
\* The coroutines of all connections run on the one thread of the event
\* loop: none of them runs while one is inside a blocking call.
LoopFree == \A d \in Conns : pc[d] # "file_io"

RECURSIVE SumOver(_, _)
SumOver(f, S) ==
    IF S = {} THEN 0
    ELSE LET x == CHOOSE y \in S : TRUE IN f[x] + SumOver(f, S \ {x})
TotalRecvd == SumOver(recvd, Conns)

Range(list) == {list[i] : i \in 1..Len(list)}
\* list.remove(x): drops the first occurrence
RECURSIVE ListRemove(_, _)
ListRemove(list, x) ==
    IF list = <<>> THEN <<>>
    ELSE IF Head(list) = x THEN Tail(list)
    ELSE <<Head(list)>> \o ListRemove(Tail(list), x)
\* Mutant of manager_disconnect: the connection registered last is removed
\* (list.pop()) instead of the one that disconnects.
manager_disconnect_pop(list, websocket) ==
    IF websocket \in Range(list) THEN SubSeq(list, 1, Len(list) - 1) ELSE list
\* ConnectionManager.connect after the accept, and ConnectionManager.disconnect
manager_connect(list, websocket) == Append(list, websocket)
manager_disconnect(list, websocket) ==
    IF websocket \in Range(list) THEN ListRemove(list, websocket) ELSE list

\* The error responses built by the except clauses of websocket_endpoint.
ParseErrorResponse ==
    MCPResponse([id |-> "unknown",
                 error |-> ErrorObject(-32700, <<"Parse error">>)])
EndpointInternalError(e) ==
    MCPResponse([id |-> "unknown",
                 error |-> ErrorObject(-32603, <<"Internal error: ">> \o e.msg)])
\* Mutant of InnerHandler: the JSONDecodeError clause sends nothing.
InnerHandler_pass(exc) ==
    IF IsInstance(exc, "JSONDecodeError") THEN "receive"
    ELSE IF IsInstance(exc, "Exception") THEN "send_internal_error"
    ELSE "raised"
\* Mutant of InnerHandler: the "except Exception" clause is missing.
InnerHandler_raise(exc) ==
    IF IsInstance(exc, "JSONDecodeError") THEN "send_parse_error"
    ELSE "raised"
\* Mutant of InnerHandler: the "except Exception" clause continues the loop
\* without answering.
InnerHandler_skip(exc) ==
    IF IsInstance(exc, "JSONDecodeError") THEN "send_parse_error"
    ELSE IF IsInstance(exc, "Exception") THEN "receive"
    ELSE "raised"
\* The except clause of the inner try that handles an exception of class
\* exc, as the line whose send it leads to.
InnerHandler(exc) ==
    IF IsInstance(exc, "JSONDecodeError") THEN "send_parse_error"
    ELSE IF IsInstance(exc, "Exception") THEN "send_internal_error"
    ELSE "raised"
InnerHandlerResponse(e) ==
    IF IsInstance(e.exc, "JSONDecodeError") THEN ParseErrorResponse
    ELSE IF IsInstance(e.exc, "Exception") THEN EndpointInternalError(e)
    ELSE NoResponse
\* Mutant of NextIteration: the JSONDecodeError clause leaves the loop.
NextIteration_break(at) == IF at = "send_parse_error" THEN "closed" ELSE "receive"
\* "while True": where the loop stands once the send of an iteration is over.
NextIteration(at) == "receive"

\* What the peer reads off a delivered message: the id, whether result and
\* error hold a value other than null, the keys of the result, and the error
\* code (0 without error).
Present(v) == v # JNull
Received(wire) ==
    [id |-> wire.m.id.v,
     result |-> Present(wire.m.result),
     keys |-> IF Present(wire.m.result) THEN DOMAIN wire.m.result.m ELSE {},
     error |-> Present(wire.m.error),
     code |-> IF Present(wire.m.error) THEN wire.m.error.m.code.v ELSE 0]

\* What websocket.send_text does when the peer has gone: the write is
\* swallowed, or WebSocketDisconnect, or another error of the ASGI server.
SendFailures ==
    { Return(JNull),
      Raise("WebSocketDisconnect", <<"1006">>),
      Raise("RuntimeError",
            <<"Cannot call \"send\" once a close message has been sent.">>) }

TypeOK ==
    /\ tools \in Seq(Range(InitialTools))
    /\ Range(active_connections) \subseteq Conns
    /\ pc \in [Conns -> {"init", "accept", "receive", "call_tool", "file_io",
                         "closed", "raised"} \cup SendPcs]
    /\ transport \in [Conns -> {"up", "down"}]
    /\ recvd \in [Conns -> 0..MaxFrames]
    /\ late_sends \in [Conns -> 0..1]
    /\ saw_disconnect \in [Conns -> BOOLEAN]

Init ==
    /\ tools = InitialTools
    /\ http_request = NoHttpRequest
    /\ http_reply = NoResponse
    /\ active_connections = <<>>
    /\ pc = [c \in Conns |-> "init"]
    /\ transport = [c \in Conns |-> "up"]
    /\ data = [c \in Conns |-> NoFrame]
    /\ response = [c \in Conns |-> NoResponse]
    /\ recvd = [c \in Conns |-> 0]
    /\ sent = [c \in Conns |-> <<>>]
    /\ executed = [c \in Conns |-> <<>>]
    /\ saw_disconnect = [c \in Conns |-> FALSE]
    /\ late_sends = [c \in Conns |-> 0]

(* ------------------------ websocket_endpoint --------------------------- *)
\* manager.connect: "await websocket.accept()" is entered.
Connect(c) ==
    /\ pc[c] = "init"
    /\ UNCHANGED <<tools, http_vars>>
    /\ LoopFree
    /\ pc' = [pc EXCEPT ![c] = "accept"]
    /\ UNCHANGED <<active_connections, transport, data, response, recvd, sent,
                   executed, saw_disconnect, late_sends>>

\* The accept completes: the connection is appended and the loop starts.
Accepted(c) ==
    /\ pc[c] = "accept"
    /\ UNCHANGED <<tools, http_vars>>
    /\ LoopFree
    /\ transport[c] = "up"
    /\ active_connections' = manager_connect(active_connections, c)
    /\ pc' = [pc EXCEPT ![c] = "receive"]
    /\ UNCHANGED <<transport, data, response, recvd, sent, executed,
                   saw_disconnect, late_sends>>

\* The peer went away during the handshake: accept raises outside the try.
AcceptFailed(c) ==
    /\ pc[c] = "accept"
    /\ UNCHANGED <<tools, http_vars>>
    /\ LoopFree
    /\ transport[c] = "down"
    /\ pc' = [pc EXCEPT ![c] = "raised"]
    /\ UNCHANGED <<active_connections, transport, data, response, recvd, sent,
                   executed, saw_disconnect, late_sends>>

\* The peer closes the connection or the network drops it.
PeerDisconnect(c) ==
    /\ pc[c] \notin {"init", "closed", "raised"}
    /\ UNCHANGED <<tools, http_vars>>
    /\ transport[c] = "up"
    /\ transport' = [transport EXCEPT ![c] = "down"]
    /\ UNCHANGED <<active_connections, pc, data, response, recvd, sent,
                   executed, saw_disconnect, late_sends>>

\* An exception e raised inside the inner try reaches its except clauses.
Caught(c, e) ==
    /\ pc' = [pc EXCEPT ![c] = InnerHandler(e.exc)]
    /\ response' = [response EXCEPT ![c] = InnerHandlerResponse(e)]
    /\ saw_disconnect' = [saw_disconnect EXCEPT
                            ![c] = @ \/ e.exc = "WebSocketDisconnect"]

\* Mutant of Dispatched: a tool that was called is dropped from self.tools.
Dispatched_unregister(c, h) ==
    /\ executed' = [executed EXCEPT ![c] = h.calls]
    /\ tools' = IF h.calls = <<>> THEN tools ELSE ListRemove(tools, h.calls[1])
    /\ IF h.out.raised
       THEN Caught(c, h.out)
       ELSE /\ pc' = [pc EXCEPT ![c] = "send_response"]
            /\ response' = [response EXCEPT ![c] = h.out.value]
            /\ UNCHANGED saw_disconnect
\* handle_request has returned or raised to line 678; it reads self.tools
\* and assigns to no attribute of the server.
Dispatched(c, h) ==
    /\ executed' = [executed EXCEPT ![c] = h.calls]
    /\ UNCHANGED tools
    /\ IF h.out.raised
       THEN Caught(c, h.out)
       ELSE /\ pc' = [pc EXCEPT ![c] = "send_response"]
            /\ response' = [response EXCEPT ![c] = h.out.value]
            /\ UNCHANGED saw_disconnect

\* The request of the frame the iteration is processing.
RequestOf(frame) == MCPRequest(json_loads(frame).value).value
Decodes(frame) ==
    /\ frame.syntax = "valid"
    /\ ~MCPRequest(json_loads(frame).value).raised

\* receive_text returns a frame; the iteration runs to its next await or
\* into the blocking call of a file tool.
ReceiveFrom(c, frames) ==
    /\ pc[c] = "receive"
    /\ UNCHANGED http_vars
    /\ LoopFree
    /\ transport[c] = "up"
    /\ TotalRecvd < MaxFrames
    /\ \E frame \in frames :
         LET request_data == json_loads(frame)
             request == IF request_data.raised THEN request_data
                        ELSE MCPRequest(request_data.value)
         IN  /\ data' = [data EXCEPT ![c] = frame]
             /\ recvd' = [recvd EXCEPT ![c] = @ + 1]
             /\ IF request.raised
                THEN /\ Caught(c, request)
                     /\ executed' = [executed EXCEPT ![c] = <<>>]
                     /\ UNCHANGED tools
                ELSE IF Suspends(request.value) \/ Blocks(request.value)
                THEN /\ pc' = [pc EXCEPT ![c] = IF Suspends(request.value)
                                                THEN "call_tool" ELSE "file_io"]
                     /\ executed' = [executed EXCEPT ![c] = <<>>]
                     /\ UNCHANGED <<tools, response, saw_disconnect>>
                ELSE \E env \in EnvChoices(request.value) :
                        Dispatched(c, handle_request(request.value, env))
    /\ UNCHANGED <<active_connections, transport, sent, late_sends>>

\* A client of the concurrent sessions sends one of the session frames.
Receive(c) == ReceiveFrom(c, SessionFrames)
\* The client of the single session sends any frame of the model.
ReceiveAny(c) == ReceiveFrom(c, Frames)

\* The outbound HTTP request of make_request completes or fails.
ToolResumed(c) ==
    /\ pc[c] = "call_tool"
    /\ UNCHANGED http_vars
    /\ LoopFree
    /\ \E env \in EnvChoices(RequestOf(data[c])) :
          Dispatched(c, handle_request(RequestOf(data[c]), env))
    /\ UNCHANGED <<active_connections, transport, data, recvd, sent, late_sends>>

\* The blocking call of a file tool returns or raises; the dispatch goes on.
FileReturned(c) ==
    /\ pc[c] = "file_io"
    /\ UNCHANGED http_vars
    /\ \E env \in EnvChoices(RequestOf(data[c])) :
          Dispatched(c, handle_request(RequestOf(data[c]), env))
    /\ UNCHANGED <<active_connections, transport, data, recvd, sent, late_sends>>

\* receive_text raises WebSocketDisconnect: the outer except unregisters.
ReceiveDisconnect(c) ==
    /\ pc[c] = "receive"
    /\ UNCHANGED <<tools, http_vars>>
    /\ LoopFree
    /\ transport[c] = "down"
    /\ active_connections' = manager_disconnect(active_connections, c)
    /\ pc' = [pc EXCEPT ![c] = "closed"]
    /\ saw_disconnect' = [saw_disconnect EXCEPT ![c] = TRUE]
    /\ UNCHANGED <<transport, data, response, recvd, sent, executed, late_sends>>

\* send_text wrote the message: the iteration is over.
Delivered(c) ==
    /\ sent' = [sent EXCEPT
                  ![c] = Append(@, Received(model_dump_json(response[c])))]
    /\ pc' = [pc EXCEPT ![c] = NextIteration(pc[c])]
    /\ data' = [data EXCEPT ![c] = NoFrame]
    /\ response' = [response EXCEPT ![c] = NoResponse]
    /\ executed' = [executed EXCEPT ![c] = <<>>]
    /\ UNCHANGED <<active_connections, saw_disconnect>>
\* send_text returned although the peer has gone.
Swallowed(c) ==
    /\ pc' = [pc EXCEPT ![c] = NextIteration(pc[c])]
    /\ data' = [data EXCEPT ![c] = NoFrame]
    /\ response' = [response EXCEPT ![c] = NoResponse]
    /\ executed' = [executed EXCEPT ![c] = <<>>]
    /\ UNCHANGED <<active_connections, sent, saw_disconnect>>
CountSend(c) ==
    late_sends' = [late_sends EXCEPT ![c] = IF saw_disconnect[c] THEN @ + 1 ELSE @]

\* Line 681: send the response of handle_request, inside the inner try.
SendResponse(c) ==
    /\ pc[c] = "send_response"
    /\ UNCHANGED <<tools, http_vars>>
    /\ LoopFree
    /\ CountSend(c)
    /\ IF transport[c] = "up"
       THEN Delivered(c)
       ELSE \E o \in SendFailures :
              IF o.raised
              THEN Caught(c, o) /\ UNCHANGED <<active_connections, data, sent, executed>>
              ELSE Swallowed(c)
    /\ UNCHANGED <<transport, recvd>>

\* The except clause of the outer try that handles an exception raised by
\* a send inside an inner except clause.
OuterHandler(exc) ==
    IF IsInstance(exc, "WebSocketDisconnect") THEN "closed" ELSE "raised"

\* Lines 692 and 703: send error_response, inside an except clause.
SendError(c) ==
    /\ pc[c] \in {"send_parse_error", "send_internal_error"}
    /\ UNCHANGED <<tools, http_vars>>
    /\ LoopFree
    /\ CountSend(c)
    /\ IF transport[c] = "up"
       THEN Delivered(c)
       ELSE \E o \in SendFailures :
              IF o.raised
              THEN /\ pc' = [pc EXCEPT ![c] = OuterHandler(o.exc)]
                   /\ active_connections' =
                        IF OuterHandler(o.exc) = "closed"
                        THEN manager_disconnect(active_connections, c)
                        ELSE active_connections
                   /\ saw_disconnect' = [saw_disconnect EXCEPT
                            ![c] = @ \/ o.exc = "WebSocketDisconnect"]
                   /\ UNCHANGED <<data, response, sent, executed>>
              ELSE Swallowed(c)
    /\ UNCHANGED <<transport, recvd>>

Next ==
    \E c \in Conns :
        \/ Connect(c)
        \/ Accepted(c)
        \/ AcceptFailed(c)
        \/ PeerDisconnect(c)
        \/ Receive(c)
        \/ ToolResumed(c)
        \/ FileReturned(c)
        \/ ReceiveDisconnect(c)
        \/ SendResponse(c)
        \/ SendError(c)

\* Concurrent sessions, each client sending frames of SessionFrames.
Spec == Init /\ [][Next]_vars

\* One session whose client sends any frame of Frames.
NextOne ==
    \/ Connect("ws1")
    \/ Accepted("ws1")
    \/ AcceptFailed("ws1")
    \/ PeerDisconnect("ws1")
    \/ ReceiveAny("ws1")
    \/ ToolResumed("ws1")
    \/ FileReturned("ws1")
    \/ ReceiveDisconnect("ws1")
    \/ SendResponse("ws1")
    \/ SendError("ws1")
SpecOne == Init /\ [][NextOne]_vars

(* ----------------------------- HTTP routes ----------------------------- *)
\* GET /health and GET /tools
health_check ==
    Dict([status |-> JStr("healthy"),
          active_connections |-> JNum(Len(active_connections))])
list_tools == Dict([tools |-> tools_values])

\* POST /tools/call: the route function call_tool(request: dict).
http_call_tool(request, env) ==
    LET tool_name == Get(request, "name", JNull)
        arguments == Get(request, "arguments", Dict(EmptyMap))
        found == InTools(tool_name)
    IN  IF found.raised THEN found
        ELSE IF found.value
        THEN LET result == call_tool(tool_name, arguments, env)
             IN  IF result.raised THEN result
                 ELSE Return(Dict([result |-> result.value]))
        ELSE Return(Dict([error |-> FStr(<<"Tool '", str(tool_name),
                                           "' not found">>)]))

\* The JSON objects a client posts to /tools/call.
HttpArguments ==
    {ABSENT, AddArgs, JList, Dict([a |-> JNum(1), b |-> JNum(0)])}
HttpBodies ==
    {Params(n, x) :
        n \in {JStr(InitialTools[i]) : i \in 1..Len(InitialTools)} \cup BadNames,
        x \in HttpArguments}
\* The tools/call request that carries the name and arguments of body.
ToolsCallOf(body) ==
    [jsonrpc |-> "2.0", id |-> "1", method |-> "tools/call", params |-> body]

session_vars == <<active_connections, pc, transport, data, response, recvd,
                  sent, executed, saw_disconnect, late_sends>>
HttpHealth ==
    /\ http_request' = [route |-> "/health"]
    /\ http_reply' = Return(health_check)
    /\ UNCHANGED <<tools, session_vars>>
HttpListTools ==
    /\ http_request' = [route |-> "/tools"]
    /\ http_reply' = Return(list_tools)
    /\ UNCHANGED <<tools, session_vars>>
\* One POST /tools/call, served under the environment's decisions env.
HttpCallTool ==
    /\ \E body \in HttpBodies : \E env \in EnvChoices(ToolsCallOf(body)) :
          /\ http_request' = [route |-> "/tools/call", body |-> body, env |-> env]
          /\ http_reply' = http_call_tool(body, env)
    /\ UNCHANGED <<tools, session_vars>>

NextHttp ==
    \/ HttpHealth
    \/ HttpListTools
    \/ HttpCallTool
\* The HTTP routes, each request served from the initial state of the server.
SpecHttp == Init /\ [][NextHttp]_vars

(* ============================== Properties ============================= *)
\* A step in which the peer of c receives a message, and that message.
Delivers(c) == sent'[c] # sent[c]
Last(log) == log[Len(log)]
ErrorCode(resp) == IF resp.error = JNull THEN 0 ELSE resp.error.m.code.v

\* C1: every Response sent on the WebSocket channel carries exactly one of
\* result / error -- never both and never neither.
C1_ExactlyOneOfResultError ==
    \A c \in Conns : \A i \in 1..Len(sent[c]) :
        sent[c][i].result # sent[c][i].error

\* C2: the Response sent for a frame that decodes into a Request has the
\* request's id, whether the dispatcher returned a result or an error.
C2_IdEchoed ==
    [][\A c \in Conns :
         (Delivers(c) /\ Decodes(data[c]))
            => Last(sent'[c]).id = RequestOf(data[c]).id]_vars
\* A dispatcher error and then a result were delivered under their request ids.
C2_Witness ==
    \E c \in Conns :
        /\ Len(sent[c]) = 2
        /\ sent[c][1].code = -32603 /\ sent[c][1].id = "1"
        /\ sent[c][2].code = 0 /\ sent[c][2].id = "2"

\* C3: every decode failure, malformed syntax or a violation of the Request
\* shape, is answered by one Response with id "unknown" and code -32700,
\* and the channel stays open.
C3_DecodeFailureIsParseError ==
    [][\A c \in Conns :
         (Delivers(c) /\ ~Decodes(data[c]))
            => /\ Last(sent'[c]).id = "unknown"
               /\ Last(sent'[c]).code = -32700
               /\ Len(sent'[c]) = Len(sent[c]) + 1
               /\ pc'[c] = "receive"]_vars

\* The messages a client can read for a request, over the environment's
\* decisions during its dispatch.
Answers(request) ==
    {Received(model_dump_json(handle_request(request, env).out.value)) :
        env \in EnvChoices(request)}

\* C4: after a syntactically invalid frame on an open connection exactly one
\* -32700 response is sent, the session stays in the receive loop and in the
\* registry, and a valid request received next is answered normally.
C4_ParseErrorRecovers ==
    [][\A c \in Conns :
         /\ (Delivers(c) /\ data[c] = InvalidText)
               => /\ Len(sent'[c]) = Len(sent[c]) + 1
                  /\ Last(sent'[c]).id = "unknown"
                  /\ Last(sent'[c]).code = -32700
                  /\ pc'[c] = "receive"
                  /\ c \in Range(active_connections')
         /\ (Delivers(c) /\ Decodes(data[c]) /\ sent[c] # <<>>
                /\ Last(sent[c]).code = -32700)
               => /\ pc[c] = "send_response"
                  /\ Last(sent'[c]) \in Answers(RequestOf(data[c]))]_vars
\* A -32700 response and then the result of a valid request were delivered
\* on one connection, which is still registered and receiving.
C4_Witness ==
    \E c \in Conns :
        /\ Len(sent[c]) = 2
        /\ sent[c][1].code = -32700
        /\ sent[c][2].code = 0 /\ sent[c][2].id = "1"
        /\ pc[c] = "receive" /\ c \in Range(active_connections)

\* C5: while the transport stays connected every received frame yields
\* exactly one response on its connection, and no fault leaves the loop.
C5_OneResponsePerFrame ==
    \A c \in Conns :
        /\ Len(sent[c]) <= recvd[c]
        /\ transport[c] = "up" =>
              /\ pc[c] \notin {"closed", "raised"}
              /\ pc[c] \in {"init", "accept", "receive"} => Len(sent[c]) = recvd[c]
              /\ pc[c] \in SendPcs \cup {"call_tool", "file_io"}
                    => Len(sent[c]) = recvd[c] - 1
\* A malformed frame and a failing request were each answered once.
C5_Witness ==
    \E c \in Conns :
        /\ transport[c] = "up" /\ pc[c] = "receive" /\ recvd[c] = 2
        /\ Len(sent[c]) = 2
        /\ sent[c][1].code = -32700 /\ sent[c][2].code = -32603

\* The request whose response connection c is about to send on a live
\* transport.
Answering(c) ==
    /\ pc[c] \in SendPcs
    /\ transport[c] = "up"
    /\ Decodes(data[c])

\* C6: a tools/call whose params.name is absent or is not a registered tool
\* name is answered with error -32601 and executes no tool binding.
C6_UnknownToolIsNotFound ==
    \A c \in Conns :
        (/\ Answering(c)
         /\ RequestOf(data[c]).method = "tools/call"
         /\ CalledTool(RequestOf(data[c])) = "")
            => /\ ErrorCode(response[c]) = -32601
               /\ executed[c] = <<>>

Contains(fstr, text) == \E i \in 1..Len(fstr.parts) : fstr.parts[i] = text
\* C7: a request whose method is not initialize, tools/list or tools/call is
\* answered with error -32601, the message holds the method name, and no
\* tool is executed.
C7_UnknownMethodIsNotFound ==
    \A c \in Conns :
        (/\ Answering(c)
         /\ RequestOf(data[c]).method \notin {"initialize", "tools/list", "tools/call"})
            => /\ pc[c] = "send_response"
               /\ ErrorCode(response[c]) = -32601
               /\ Contains(response[c].error.m.message, RequestOf(data[c]).method)
               /\ executed[c] = <<>>
\* The response to tools/frobnicate, sent with the name and arguments of a
\* registered tool, is about to be sent.
C7_Witness ==
    \E c \in Conns :
        /\ Answering(c)
        /\ RequestOf(data[c]).method = "tools/frobnicate"
        /\ Get(RequestOf(data[c]).params, "name", JNull) = JStr("add")

\* The text segments of suffix end the segments of parts.
EndsWith(parts, suffix) ==
    /\ Len(suffix) <= Len(parts)
    /\ SubSeq(parts, Len(parts) - Len(suffix) + 1, Len(parts)) = suffix
\* C8: a fault raised while the dispatcher handles a request is returned by
\* handle_request as a -32603 error whose message holds the fault's message;
\* handle_request never raises to its caller.
C8_FaultsBecomeInternalError ==
    \A c \in Conns :
        Answering(c) =>
            /\ pc[c] = "send_response"
            /\ \E env \in EnvChoices(RequestOf(data[c])) :
                 LET t == handle_request_try(RequestOf(data[c]), env)
                 IN  /\ executed[c] = t.calls
                     /\ IF t.out.raised
                        THEN /\ response[c].id = RequestOf(data[c]).id
                             /\ ErrorCode(response[c]) = -32603
                             /\ EndsWith(response[c].error.m.message.parts,
                                         t.out.msg)
                        ELSE response[c] = t.out.value
\* The add binding ran on arguments that are not a mapping, and the
\* -32603 response for the AttributeError is about to be sent.
C8_Witness ==
    \E c \in Conns :
        /\ Answering(c)
        /\ CalledTool(RequestOf(data[c])) = "add"
        /\ CallArguments(RequestOf(data[c])) = JList
        /\ executed[c] = <<"add">>
        /\ ErrorCode(response[c]) = -32603
        /\ Contains(response[c].error.m.message,
                    "' object has no attribute '")

\* A step in which connection c forms or delivers an error response while
\* its transport is connected.
ErrorStep(c) ==
    /\ transport[c] = "up"
    /\ \/ Delivers(c) /\ Last(sent'[c]).code # 0
       \/ /\ response'[c] # response[c]
          /\ response'[c] # NoResponse
          /\ ErrorCode(response'[c]) # 0
\* C9: an error inside one request neither ends its connection's loop nor
\* unregisters the session nor touches any other connection's request; the
\* answer to a request does not depend on what its connection handled
\* before; only a transport-level disconnect ends a session.
C9_ErrorsStayLocal ==
    [][\A c \in Conns :
         /\ ErrorStep(c) =>
               /\ pc'[c] \in SendPcs \cup {"receive"}
               /\ active_connections' = active_connections
               /\ \A d \in Conns \ {c} :
                     /\ pc'[d] = pc[d] /\ data'[d] = data[d]
                     /\ response'[d] = response[d] /\ sent'[d] = sent[d]
         /\ (Delivers(c) /\ Decodes(data[c]))
               => Last(sent'[c]) \in Answers(RequestOf(data[c]))
         /\ (pc'[c] \in {"closed", "raised"} /\ pc[c] # pc'[c])
               => transport[c] = "down"]_vars
\* One connection has been answered a tool error and is receiving again
\* while the other is in the middle of a request of its own.
C9_Witness ==
    \E c, d \in Conns :
        /\ c # d
        /\ pc[c] = "receive" /\ c \in Range(active_connections)
        /\ sent[c] # <<>> /\ Last(sent[c]).code = -32603
        /\ pc[d] = "send_response" /\ ErrorCode(response[d]) = 0

\* C10: once a transport-level disconnect has been raised to a session, the
\* session is unregistered, its loop has ended, and no response is attempted.
C10_DisconnectEndsSession ==
    \A c \in Conns :
        saw_disconnect[c] =>
            /\ late_sends[c] = 0
            /\ pc[c] = "closed"
            /\ c \notin Range(active_connections)

\* C11: a connection has at most one request in dispatch: a frame is read
\* only when the iteration of the frame before it is over and its response
\* has been sent, and the k-th message a peer receives answers the k-th
\* frame it sent.
C11_OneRequestInDispatch ==
    [][\A c \in Conns :
         /\ recvd'[c] # recvd[c] =>
               /\ recvd'[c] = recvd[c] + 1
               /\ pc[c] = "receive"
               /\ data[c] = NoFrame /\ response[c] = NoResponse
               /\ Len(sent[c]) = recvd[c]
         /\ Delivers(c) =>
               /\ Len(sent'[c]) = recvd[c]
               /\ SubSeq(sent'[c], 1, Len(sent[c])) = sent[c]
               /\ recvd'[c] = recvd[c]
               /\ IF Decodes(data[c])
                  THEN Last(sent'[c]) \in Answers(RequestOf(data[c]))
                  ELSE Last(sent'[c]).id = "unknown"]_vars
\* A connection has read its second frame after the answer to its first was
\* delivered, and is about to answer it.
C11_Witness ==
    \E c \in Conns :
        /\ recvd[c] = 2 /\ Len(sent[c]) = 1 /\ sent[c][1].id = "1"
        /\ Answering(c) /\ RequestOf(data[c]).id = "2"

\* C12: while the tool of one connection waits for I/O (a file read or
\* write, a directory listing, an outbound HTTP request) the loop of every
\* other connection can take its next step: accept and register, dispatch a
\* received frame, send its response.
C12_SuspensionBlocksOnlyItsConnection ==
    \A a, b \in Conns :
        (a # b /\ pc[a] \in {"call_tool", "file_io"}) =>
            /\ pc[b] = "init" => ENABLED Connect(b)
            /\ (pc[b] = "accept" /\ transport[b] = "up") => ENABLED Accepted(b)
            /\ (pc[b] = "receive" /\ transport[b] = "up"
                   /\ TotalRecvd < MaxFrames) => ENABLED Receive(b)
            /\ pc[b] = "send_response" => ENABLED SendResponse(b)
            /\ pc[b] \in SendPcs \ {"send_response"} => ENABLED SendError(b)

\* C13: the result of tools/list holds one descriptor for every registered
\* tool, in registration order, and tools/list requests answered on
\* different connections at the same time carry the same listing.
C13_ListingIsTheRegistry ==
    \A c \in Conns :
        (Answering(c) /\ RequestOf(data[c]).method = "tools/list") =>
            /\ ErrorCode(response[c]) = 0
            /\ DOMAIN response[c].result.m = {"tools"}
            /\ LET listing == response[c].result.m.tools.items
               IN  /\ Len(listing) = Len(InitialTools)
                   /\ \A i \in 1..Len(listing) :
                         listing[i].m.name.v = InitialTools[i]
            /\ \A d \in Conns :
                  (Answering(d) /\ RequestOf(data[d]).method = "tools/list")
                     => response[d].result = response[c].result
\* Two connections are about to send their tools/list responses at the same
\* time.
C13_Witness ==
    \E c, d \in Conns :
        /\ c # d
        /\ Answering(c) /\ RequestOf(data[c]).method = "tools/list"
        /\ Answering(d) /\ RequestOf(data[d]).method = "tools/list"

\* C14: POST /tools/call answers every {name, arguments} body with {result}
\* or {error}, never with a fault: {result} exactly when the tools/call
\* request with the same name and arguments is answered a result, {error}
\* exactly when it is answered an error.
C14_HttpAgreesWithToolsCall ==
    http_request.route = "/tools/call" =>
        LET answer == handle_request(ToolsCallOf(http_request.body),
                                     http_request.env).out.value
        IN  /\ ~http_reply.raised
            /\ DOMAIN http_reply.value.m \in {{"result"}, {"error"}}
            /\ "result" \in DOMAIN http_reply.value.m <=> ErrorCode(answer) = 0

\* The endpoint of c has registered the connection and its loop has not ended.
Live(c) == pc[c] \notin {"init", "accept", "closed", "raised"}
\* C15: the registry holds exactly the connections that were accepted and
\* whose receive loop has not ended, whatever ended it, and the liveness
\* route reports the number of those sessions.
C15_RegistryIsLiveSessions ==
    /\ \A c \in Conns : c \in Range(active_connections) <=> Live(c)
    /\ health_check.m.active_connections.v
          = Cardinality({c \in Conns : Live(c)})

\* C16: every registered name is compared with by exactly one branch of
\* call_tool, and a tools/call whose name passed the membership check runs
\* that branch: the "Unknown tool" fallback is not reached.
C16_EveryToolHasOneBinding ==
    /\ \A i \in 1..Len(tools) :
          /\ Cardinality({j \in 1..Len(ToolBranches) :
                             ToolBranches[j] = tools[i]}) = 1
          /\ \A x \in {Dict(EmptyMap), JList} :
                ~IsUnknownTool(call_tool(JStr(tools[i]), x, Env("ok", 0)))
    /\ \A c \in Conns :
          (Answering(c) /\ CalledTool(RequestOf(data[c])) # "") =>
              /\ executed[c] = <<CalledTool(RequestOf(data[c]))>>
              /\ \A env \in EnvChoices(RequestOf(data[c])) :
                    ~IsUnknownTool(call_tool(
                        JStr(CalledTool(RequestOf(data[c]))),
                        CallArguments(RequestOf(data[c])), env))
              /\ ErrorCode(response[c]) # 0 =>
                    ~Contains(response[c].error.m.message, "Unknown tool: ")
\* The binding of the tool registered last, the last branch before the
\* fallback, has run and its response is about to be sent.
C16_Witness ==
    \E c \in Conns :
        /\ Answering(c)
        /\ CalledTool(RequestOf(data[c])) = "make_request"
        /\ executed[c] = <<"make_request">>
        /\ ErrorCode(response[c]) = 0

\* The text of the only content item of a response, null when the result
\* of the response is not an envelope of one item of type "text".
EnvelopeText(resp) ==
    IF /\ resp.result.t = "obj" /\ DOMAIN resp.result.m = {"content"}
       /\ resp.result.m.content.t = "list"
       /\ Len(resp.result.m.content.items) = 1
       /\ DOMAIN resp.result.m.content.items[1].m = {"type", "text"}
       /\ resp.result.m.content.items[1].m.type = JStr("text")
    THEN resp.result.m.content.items[1].m.text
    ELSE JNull
\* C17: the response to a tools/call whose binding returned carries the
\* request's id and, as its result, an envelope of exactly one item of type
\* "text" whose text is str() of the value returned; add with a = 2, b = 3
\* under id "1" is answered with id "1" and text "5".
C17_ResultIsTextEnvelope ==
    \A c \in Conns :
        /\ (/\ Answering(c)
            /\ CalledTool(RequestOf(data[c])) # ""
            /\ ErrorCode(response[c]) = 0)
              => /\ response[c].id = RequestOf(data[c]).id
                 /\ \E env \in EnvChoices(RequestOf(data[c])) :
                       LET r == call_tool(JStr(CalledTool(RequestOf(data[c]))),
                                          CallArguments(RequestOf(data[c])), env)
                       IN  /\ ~r.raised
                           /\ EnvelopeText(response[c]) = JStr(str(r.value))
        /\ (Answering(c) /\ data[c] = CallFrame("1", JStr("add"), AddArgs))
              => /\ response[c].id = "1"
                 /\ response[c].error = JNull
                 /\ EnvelopeText(response[c]) = JStr("5")
\* The response to add with a = 2, b = 3 under id "1" is about to be sent.
C17_Witness ==
    \E c \in Conns :
        /\ Answering(c)
        /\ data[c] = CallFrame("1", JStr("add"), AddArgs)
        /\ executed[c] = <<"add">>
        /\ EnvelopeText(response[c]) = JStr("5")

\* The bounds a random_number call is made with.
MinOf(request) == Get(CallArguments(request), "min", JNum(0))
MaxOf(request) == Get(CallArguments(request), "max", JNum(100))
\* C18: random_number called with numbers min > max is answered with the
\* tool's error, and called with numbers min <= max, integers or not, is
\* answered with an integer n such that min <= n <= max.
C18_RandomNumberInRange ==
    \A c \in Conns :
        (/\ Answering(c)
         /\ CalledTool(RequestOf(data[c])) = "random_number"
         /\ CallArguments(RequestOf(data[c])).t = "obj"
         /\ IsNumber(MinOf(RequestOf(data[c])))
         /\ IsNumber(MaxOf(RequestOf(data[c]))))
            => LET min_val == MinOf(RequestOf(data[c]))
                   max_val == MaxOf(RequestOf(data[c]))
               IN  IF NumLess(max_val, min_val)
                   THEN /\ ErrorCode(response[c]) = -32603
                        /\ Contains(response[c].error.m.message,
                              "Minimum value cannot be greater than maximum value")
                   ELSE /\ ErrorCode(response[c]) = 0
                        /\ \E n \in (Trunc(min_val) - 1)..(Trunc(max_val) + 1) :
                              /\ ~NumLess(JNum(n), min_val)
                              /\ ~NumLess(max_val, JNum(n))
                              /\ EnvelopeText(response[c]) = JStr(IntStr(n))

\* C19: divide called with a divisor equal to zero (0, 0.0, or no b at all)
\* raises the tool's "Division by zero" error whatever the dividend is, and
\* tools/call answers with a -32603 error that carries it, never a result.
C19_DivideByZeroIsToolError ==
    \A c \in Conns :
        (/\ Answering(c)
         /\ CalledTool(RequestOf(data[c])) = "divide"
         /\ CallArguments(RequestOf(data[c])).t = "obj"
         /\ EqZero(Get(CallArguments(RequestOf(data[c])), "b", JNum(0))))
            => /\ pc[c] = "send_response"
               /\ executed[c] = <<"divide">>
               /\ response[c].id = RequestOf(data[c]).id
               /\ ErrorCode(response[c]) = -32603
               /\ Contains(response[c].error.m.message,
                           "Division by zero is not allowed")
\* The -32603 response to a division by the float 0.0 is about to be sent.
C19_Witness ==
    \E c \in Conns :
        /\ Answering(c)
        /\ CalledTool(RequestOf(data[c])) = "divide"
        /\ Get(CallArguments(RequestOf(data[c])), "b", JNum(0)) = JFloat(0, 1)
        /\ ErrorCode(response[c]) = -32603

\* A step in which connection c, on a connected transport, takes in a frame,
\* resumes its dispatch or delivers its response.
HandlesMessage(c) ==
    /\ transport[c] = "up"
    /\ \/ recvd'[c] # recvd[c]
       \/ pc[c] \in {"call_tool", "file_io"} /\ pc'[c] # pc[c]
       \/ Delivers(c)
\* C20: handling a message of any kind changes neither the tool registry nor
\* the connection registry, and leaves nothing behind on its connection:
\* when the response is delivered the connection is back at the receive
\* with no frame, response or call kept, and a request is answered as its
\* content alone determines, whatever the connection handled before.
C20_HandlingKeepsNoState ==
    [][\A c \in Conns :
         /\ HandlesMessage(c) =>
               /\ tools' = tools
               /\ active_connections' = active_connections
         /\ Delivers(c) =>
               /\ pc'[c] = "receive"
               /\ data'[c] = NoFrame /\ response'[c] = NoResponse
               /\ executed'[c] = <<>>
               /\ Decodes(data[c]) =>
                     Last(sent'[c]) \in Answers(RequestOf(data[c]))]_vars
\* A connection was answered initialize and then a tools/call, both with a
\* result, and is registered and back at the receive.
C20_Witness ==
    \E c \in Conns :
        /\ Len(sent[c]) = 2
        /\ sent[c][1].keys = DOMAIN InitializeResult.m
        /\ sent[c][2].keys = {"content"}
        /\ pc[c] = "receive" /\ c \in Range(active_connections)
        /\ tools = InitialTools

\* The entries of list other than x, in their order.
RECURSIVE Without(_, _)
Without(list, x) ==
    IF list = <<>> THEN <<>>
    ELSE IF Head(list) = x THEN Without(Tail(list), x)
    ELSE <<Head(list)>> \o Without(Tail(list), x)
\* C21: however the connects and disconnects of the connections interleave,
\* the registry never holds a connection twice; a connection enters it only
\* in the step that completes its accept; a connection leaves it only in its
\* own disconnect, the other entries staying as they are; and disconnect of
\* a connection that is not registered, or a second disconnect, changes
\* nothing.
C21_RegistryDiscipline ==
    [][/\ Cardinality(Range(active_connections')) = Len(active_connections')
       /\ \A c \in Conns :
            /\ (c \in Range(active_connections')
                   /\ c \notin Range(active_connections))
                  => /\ pc[c] = "accept" /\ transport[c] = "up"
                     /\ pc'[c] = "receive"
                     /\ active_connections' = Append(active_connections, c)
            /\ (c \in Range(active_connections)
                   /\ c \notin Range(active_connections'))
                  => /\ pc'[c] = "closed" /\ pc[c] # "closed"
                     /\ active_connections' = Without(active_connections, c)
            /\ c \notin Range(active_connections')
                  => manager_disconnect(active_connections', c)
                        = active_connections'
            /\ manager_disconnect(
                   manager_disconnect(active_connections', c), c)
                  = manager_disconnect(active_connections', c)]_vars
\* Both connections were registered and one of them has disconnected: the
\* registry holds the other one, whose session goes on.
C21_Witness ==
    \E c, d \in Conns :
        /\ c # d
        /\ pc[c] = "closed" /\ saw_disconnect[c]
        /\ active_connections = <<d>>
        /\ pc[d] \in {"receive", "call_tool", "file_io"} \cup SendPcs
        /\ manager_disconnect(active_connections, c) = active_connections

====
